---- MODULE Spec2Model ----
(***************************************************************************)
(* The SQL column-type subsystem (pkg/sql/parser/col_types.go) and the     *)
(* result-column comparison exercised by                                    *)
(* pkg/sql/sqlbase/result_columns_test.go.                                  *)
(*                                                                          *)
(* Column types are Go structs reached through pointers; several functions *)
(* dispatch on the pointer itself (oidColTypeToType), so the model keeps a *)
(* heap from addresses to struct values.  The package-level singletons are *)
(* the heap's initial contents.  Value types (types.T) are built from      *)
(* unary constructors only, so a value type is the sequence of its         *)
(* constructors, outermost first: TArray{TypeInt} is <<"TArray", "Int">>.  *)
(***************************************************************************)
EXTENDS Integers, Sequences, FiniteSets, TLC

VARIABLES
    heap,          \* address -> column-type struct
    nalloc,        \* number of structs allocated after package initialisation
    nonIndexable,  \* variants the engine configuration also bars from arrays
    op,            \* the last completed call
    argT,          \* its value-type argument
    argC,          \* its column-type argument (an address)
    argB,          \* its bounds-expression argument
    retC,          \* the column type it returned (an address, or Nil)
    retT,          \* the value type it returned
    err,           \* the error kind it returned, NoErr, or Panicked
    argF,          \* the formatting flags of the last Format call
    retS,          \* the text the last Format call wrote to its buffer
    ctxs,          \* address -> decimal context (apd.Context)
    calls,         \* goroutine -> its LimitDecimalWidth call
    teA, teB, teC, \* the three ResultColumns values of a comparison table
    teGot,         \* the results of the TypesEqual calls made so far
    sqlfmt         \* the run of a sqlfmt process

vars == <<heap, nalloc, nonIndexable, op, argT, argC, argB, retC, retT, err,
          argF, retS, ctxs, calls, teA, teB, teC, teGot, sqlfmt>>

(***************************************************************************)
(* Bounds of the model.                                                    *)
(***************************************************************************)
MaxAlloc == 2   \* structs allocated after initialisation
MaxDepth == 2   \* constructors nested around a base value type
MaxCols == 2    \* columns in a ResultColumns value
NProcs == 2     \* goroutines limiting decimals at the same time
MaxCoeffDigits == 8   \* digits of the longest coefficient a quantization yields

(***************************************************************************)
(* Value types: package types.                                             *)
(***************************************************************************)
TypeBool == <<"Bool">>
TypeInt == <<"Int">>
TypeFloat == <<"Float">>
TypeDecimal == <<"Decimal">>
TypeString == <<"String">>
TypeBytes == <<"Bytes">>
TypeDate == <<"Date">>
TypeTimestamp == <<"Timestamp">>
TypeTimestampTZ == <<"TimestampTZ">>
TypeInterval == <<"Interval">>
TypeJSON == <<"JSON">>
TypeUUID == <<"UUID">>
TypeINet == <<"INet">>
TypeName == <<"Name">>
TypeOid == <<"Oid">>
TypeRegClass == <<"RegClass">>
TypeRegNamespace == <<"RegNamespace">>
TypeRegProc == <<"RegProc">>
TypeRegProcedure == <<"RegProcedure">>
TypeRegType == <<"RegType">>
TypeIntVector == <<"IntVector">>
TypeNull == <<"Null">>
TTuple == <<"TTuple">>
TCollatedString(locale) == <<"TCollatedString", locale>>
TArray(typ) == <<"TArray">> \o typ
TOidWrapper(typ) == <<"TOidWrapper">> \o typ

\* The result of a call that panicked instead of returning a value type.
PanicT == <<"panic">>
\* No value type (the call returns none).
NoT == <<>>

Primitives ==
    {TypeBool, TypeInt, TypeFloat, TypeDecimal, TypeString, TypeBytes, TypeDate,
     TypeTimestamp, TypeTimestampTZ, TypeInterval, TypeJSON, TypeUUID, TypeINet,
     TypeName}

OidTypes ==
    {TypeOid, TypeRegClass, TypeRegNamespace, TypeRegProc, TypeRegProcedure,
     TypeRegType}

Locales == {"en", "de"}

BaseTypes ==
    Primitives \cup OidTypes \cup {TypeNull, TTuple}
        \cup {TCollatedString(l) : l \in Locales}

RECURSIVE TypesUpTo(_)
TypesUpTo(d) ==
    IF d = 0 THEN BaseTypes
    ELSE LET S == TypesUpTo(d - 1)
         IN  S \cup {TArray(t) : t \in S} \cup {TOidWrapper(t) : t \in S}

\* The value types calls are made with.
ValueTypes == TypesUpTo(MaxDepth)

(***************************************************************************)
(* Column types: the structs of col_types.go.  "variant" is the Go type of *)
(* the struct, which type switches dispatch on.                            *)
(***************************************************************************)
BoolColType(name) == [variant |-> "BoolColType", Name |-> name]
IntColType(name, width, implicitWidth) ==
    [variant |-> "IntColType", Name |-> name, Width |-> width,
     ImplicitWidth |-> implicitWidth]
FloatColType(name, prec, width, precSpecified) ==
    [variant |-> "FloatColType", Name |-> name, Prec |-> prec, Width |-> width,
     PrecSpecified |-> precSpecified]
DecimalColType(name, prec, scale) ==
    [variant |-> "DecimalColType", Name |-> name, Prec |-> prec, Scale |-> scale]
DateColType == [variant |-> "DateColType"]
TimestampColType == [variant |-> "TimestampColType"]
TimestampTZColType == [variant |-> "TimestampTZColType"]
IntervalColType == [variant |-> "IntervalColType"]
UUIDColType == [variant |-> "UUIDColType"]
IPAddrColType(name) == [variant |-> "IPAddrColType", Name |-> name]
StringColType(name, n) == [variant |-> "StringColType", Name |-> name, N |-> n]
NameColType == [variant |-> "NameColType"]
BytesColType(name) == [variant |-> "BytesColType", Name |-> name]
CollatedStringColType(name, n, locale) ==
    [variant |-> "CollatedStringColType", Name |-> name, N |-> n,
     Locale |-> locale]
ArrayColType(name, paramType, boundsExprs) ==
    [variant |-> "ArrayColType", Name |-> name, ParamType |-> paramType,
     BoundsExprs |-> boundsExprs]
VectorColType(name, paramType) ==
    [variant |-> "VectorColType", Name |-> name, ParamType |-> paramType]
JSONColType(name) == [variant |-> "JSONColType", Name |-> name]
OidColType(name) == [variant |-> "OidColType", Name |-> name]

\* The nil pointer, and the address of the k-th struct allocated after
\* package initialisation.
Nil == "nil"
NewAddr(k) == "new" \o ToString(k)

\* Exprs(nil): no bounds expressions.
NoBounds == <<>>

(***************************************************************************)
(* The addresses of the pre-allocated column types that functions of the   *)
(* package name.                                                           *)
(***************************************************************************)
boolColTypeBool == "boolColTypeBool"
intColTypeInt == "intColTypeInt"
floatColTypeFloat == "floatColTypeFloat"
decimalColTypeDecimal == "decimalColTypeDecimal"
dateColTypeDate == "dateColTypeDate"
timestampColTypeTimestamp == "timestampColTypeTimestamp"
timestampTzColTypeTimestampWithTZ == "timestampTzColTypeTimestampWithTZ"
intervalColTypeInterval == "intervalColTypeInterval"
uuidColTypeUUID == "uuidColTypeUUID"
ipnetColTypeINet == "ipnetColTypeINet"
stringColTypeString == "stringColTypeString"
nameColTypeName == "nameColTypeName"
bytesColTypeBytes == "bytesColTypeBytes"
int2vectorColType == "int2vectorColType"
jsonColType == "jsonColType"
oidColTypeOid == "oidColTypeOid"
oidColTypeRegClass == "oidColTypeRegClass"
oidColTypeRegNamespace == "oidColTypeRegNamespace"
oidColTypeRegProc == "oidColTypeRegProc"
oidColTypeRegProcedure == "oidColTypeRegProcedure"
oidColTypeRegType == "oidColTypeRegType"

\* The package-level variables: the heap after package initialisation.
Catalog ==
    (boolColTypeBool :> BoolColType("BOOL"))
    @@ ("boolColTypeBoolean" :> BoolColType("BOOLEAN"))
    @@ ("intColTypeBit" :> IntColType("BIT", 1, TRUE))
    @@ (intColTypeInt :> IntColType("INT", 0, FALSE))
    @@ ("intColTypeInt2" :> IntColType("INT2", 16, TRUE))
    @@ ("intColTypeInt4" :> IntColType("INT4", 32, TRUE))
    @@ ("intColTypeInt8" :> IntColType("INT8", 0, FALSE))
    @@ ("intColTypeInt64" :> IntColType("INT64", 0, FALSE))
    @@ ("intColTypeInteger" :> IntColType("INTEGER", 0, FALSE))
    @@ ("intColTypeSmallInt" :> IntColType("SMALLINT", 16, TRUE))
    @@ ("intColTypeBigInt" :> IntColType("BIGINT", 0, FALSE))
    @@ ("intColTypeSerial" :> IntColType("SERIAL", 0, FALSE))
    @@ ("intColTypeSmallSerial" :> IntColType("SMALLSERIAL", 0, FALSE))
    @@ ("intColTypeBigSerial" :> IntColType("BIGSERIAL", 0, FALSE))
    @@ ("floatColTypeReal" :> FloatColType("REAL", 0, 32, FALSE))
    @@ (floatColTypeFloat :> FloatColType("FLOAT", 0, 64, FALSE))
    @@ ("floatColTypeFloat4" :> FloatColType("FLOAT4", 0, 32, FALSE))
    @@ ("floatColTypeFloat8" :> FloatColType("FLOAT8", 0, 64, FALSE))
    @@ ("floatColTypeDouble" :> FloatColType("DOUBLE PRECISION", 0, 64, FALSE))
    @@ ("decimalColTypeDec" :> DecimalColType("DEC", 0, 0))
    @@ (decimalColTypeDecimal :> DecimalColType("DECIMAL", 0, 0))
    @@ ("decimalColTypeNumeric" :> DecimalColType("NUMERIC", 0, 0))
    @@ (dateColTypeDate :> DateColType)
    @@ (timestampColTypeTimestamp :> TimestampColType)
    @@ (timestampTzColTypeTimestampWithTZ :> TimestampTZColType)
    @@ (intervalColTypeInterval :> IntervalColType)
    @@ (uuidColTypeUUID :> UUIDColType)
    @@ (ipnetColTypeINet :> IPAddrColType("INET"))
    @@ ("stringColTypeChar" :> StringColType("CHAR", 0))
    @@ ("stringColTypeVarChar" :> StringColType("VARCHAR", 0))
    @@ (stringColTypeString :> StringColType("STRING", 0))
    @@ ("stringColTypeText" :> StringColType("TEXT", 0))
    @@ (nameColTypeName :> NameColType)
    @@ ("bytesColTypeBlob" :> BytesColType("BLOB"))
    @@ (bytesColTypeBytes :> BytesColType("BYTES"))
    @@ ("bytesColTypeBytea" :> BytesColType("BYTEA"))
    @@ (int2vectorColType :> VectorColType("INT2VECTOR", intColTypeInt))
    @@ (jsonColType :> JSONColType("JSON"))
    @@ ("jsonbColType" :> JSONColType("JSONB"))
    @@ (oidColTypeOid :> OidColType("OID"))
    @@ (oidColTypeRegClass :> OidColType("REGCLASS"))
    @@ (oidColTypeRegNamespace :> OidColType("REGNAMESPACE"))
    @@ (oidColTypeRegProc :> OidColType("REGPROC"))
    @@ (oidColTypeRegProcedure :> OidColType("REGPROCEDURE"))
    @@ (oidColTypeRegType :> OidColType("REGTYPE"))

(***************************************************************************)
(* Rendering.                                                              *)
(***************************************************************************)
\* The default formatting flags, and the flag set that writes identifiers bare.
FmtSimple == "FmtSimple"
FmtBareIdentifiers == "FmtBareIdentifiers"

\* Writes an identifier that needs no keyword check: quoted, unless the flags
\* ask for bare identifiers.
encodeUnrestrictedSQLIdent(s, f) ==
    IF f = FmtBareIdentifiers THEN s ELSE "\"" \o s \o "\""

\* fmt's "(%d)".
Paren(n) == "(" \o ToString(n) \o ")"

\* Mutant of FormatIntColType: every positive width is written.
FormatIntColType_AnyWidth(node) ==
    node.Name \o (IF node.Width > 0 THEN Paren(node.Width) ELSE "")

\* (*IntColType).Format: the name, and the width when it is positive and
\* not implicit.
FormatIntColType(node) ==
    node.Name \o (IF node.Width > 0 /\ ~node.ImplicitWidth
                  THEN Paren(node.Width) ELSE "")

\* node.Format(buf, f): the text node writes to the buffer.
Format(h, a, f) ==
    LET node == h[a] IN
    CASE node.variant = "BoolColType" -> node.Name
      [] node.variant = "IntColType" -> FormatIntColType(node)
      [] node.variant = "FloatColType" ->
            node.Name \o (IF node.Prec > 0 THEN Paren(node.Prec) ELSE "")
      [] node.variant = "DecimalColType" ->
            node.Name \o
            (IF node.Prec > 0
             THEN "(" \o ToString(node.Prec)
                      \o (IF node.Scale > 0 THEN "," \o ToString(node.Scale) ELSE "")
                      \o ")"
             ELSE "")
      [] node.variant = "DateColType" -> "DATE"
      [] node.variant = "TimestampColType" -> "TIMESTAMP"
      [] node.variant = "TimestampTZColType" -> "TIMESTAMP WITH TIME ZONE"
      [] node.variant = "IntervalColType" -> "INTERVAL"
      [] node.variant = "UUIDColType" -> "UUID"
      [] node.variant = "IPAddrColType" -> node.Name
      [] node.variant = "StringColType" ->
            node.Name \o (IF node.N > 0 THEN Paren(node.N) ELSE "")
      [] node.variant = "NameColType" -> "NAME"
      [] node.variant = "BytesColType" -> node.Name
      [] node.variant = "CollatedStringColType" ->
            node.Name \o (IF node.N > 0 THEN Paren(node.N) ELSE "")
                      \o " COLLATE " \o encodeUnrestrictedSQLIdent(node.Locale, f)
      [] node.variant = "ArrayColType" ->
            node.Name \o
            (IF h[node.ParamType].variant = "CollatedStringColType"
             THEN " COLLATE "
                      \o encodeUnrestrictedSQLIdent(h[node.ParamType].Locale, f)
             ELSE "")
      [] node.variant = "VectorColType" -> node.Name
      [] node.variant = "JSONColType" -> node.Name
      [] node.variant = "OidColType" -> node.Name

\* node.String(): AsString(node), the node formatted with the default flags.
String(h, a) == Format(h, a, FmtSimple)

(***************************************************************************)
(* Errors: the pgerror code, followed by what the message is about.        *)
(***************************************************************************)
NoErr == <<>>
Panicked == <<"panic">>
CodeFeatureNotSupportedError == "FeatureNotSupported"
CodeInvalidTableDefinitionError == "InvalidTableDefinition"

\* What a function that may allocate returns: the heap and allocation count
\* it leaves, the column type (an address, or Nil) and the error.
Result(h, n, ret, e) == [heap |-> h, n |-> n, ret |-> ret, err |-> e]

(***************************************************************************)
(* FLOAT types.                                                            *)
(***************************************************************************)
\* Mutant of NewFloatColType: a precision of 0 gets the shared FLOAT whether
\* or not it was specified.
NewFloatColType_SharedWhenZero(h, n, prec, precSpecified) ==
    IF prec = 0
    THEN Result(h, n, floatColTypeFloat, NoErr)
    ELSE LET a == NewAddr(n + 1)
         IN  Result((a :> FloatColType("FLOAT", prec, 64, precSpecified)) @@ h,
                    n + 1, a, NoErr)

\* NewFloatColType(prec, precSpecified): the shared FLOAT for the default,
\* a new struct otherwise.
NewFloatColType(h, n, prec, precSpecified) ==
    IF prec = 0 /\ ~precSpecified
    THEN Result(h, n, floatColTypeFloat, NoErr)
    ELSE LET a == NewAddr(n + 1)
         IN  Result((a :> FloatColType("FLOAT", prec, 64, precSpecified)) @@ h,
                    n + 1, a, NoErr)

(***************************************************************************)
(* Arrays.                                                                 *)
(***************************************************************************)
\* Whether a column type may be the element type of an array: never an array
\* or a vector, nor a variant the engine configuration bars.
canBeInArrayColType(node) ==
    node.variant \notin ({"ArrayColType", "VectorColType"} \cup nonIndexable)

\* Mutant of arrayOf: the bounds expressions are dropped.
arrayOf_NoBounds(h, n, colType, boundsExprs) ==
    IF ~canBeInArrayColType(h[colType])
    THEN Result(h, n, Nil, <<CodeFeatureNotSupportedError, String(h, colType)>>)
    ELSE LET a == NewAddr(n + 1)
         IN  Result((a :> ArrayColType(String(h, colType) \o "[]", colType,
                                       NoBounds)) @@ h,
                    n + 1, a, NoErr)

\* Mutant of arrayOf: the element type is not checked.
arrayOf_Unchecked(h, n, colType, boundsExprs) ==
    Result((NewAddr(n + 1) :> ArrayColType(String(h, colType) \o "[]", colType,
                                          boundsExprs)) @@ h,
           n + 1, NewAddr(n + 1), NoErr)

arrayOf(h, n, colType, boundsExprs) ==
    IF ~canBeInArrayColType(h[colType])
    THEN Result(h, n, Nil, <<CodeFeatureNotSupportedError, String(h, colType)>>)
    ELSE LET a == NewAddr(n + 1)
         IN  Result((a :> ArrayColType(String(h, colType) \o "[]", colType,
                                       boundsExprs)) @@ h,
                    n + 1, a, NoErr)

(***************************************************************************)
(* The OID family.                                                         *)
(***************************************************************************)
\* The switch is on the pointer: only the six singletons have a case.
oidColTypeToType(ct) ==
    CASE ct = oidColTypeOid -> TypeOid
      [] ct = oidColTypeRegClass -> TypeRegClass
      [] ct = oidColTypeRegNamespace -> TypeRegNamespace
      [] ct = oidColTypeRegProc -> TypeRegProc
      [] ct = oidColTypeRegProcedure -> TypeRegProcedure
      [] ct = oidColTypeRegType -> TypeRegType
      [] OTHER -> PanicT

\* Mutant of oidTypeToColType: REGTYPE is given the column type of OID.
oidTypeToColType_RegTypeAsOid(t) ==
    CASE t = TypeOid -> oidColTypeOid
      [] t = TypeRegClass -> oidColTypeRegClass
      [] t = TypeRegNamespace -> oidColTypeRegNamespace
      [] t = TypeRegProc -> oidColTypeRegProc
      [] t = TypeRegProcedure -> oidColTypeRegProcedure
      [] t = TypeRegType -> oidColTypeOid
      [] OTHER -> Nil

\* Nil stands for the panic of the default case.
oidTypeToColType(t) ==
    CASE t = TypeOid -> oidColTypeOid
      [] t = TypeRegClass -> oidColTypeRegClass
      [] t = TypeRegNamespace -> oidColTypeRegNamespace
      [] t = TypeRegProc -> oidColTypeRegProc
      [] t = TypeRegProcedure -> oidColTypeRegProcedure
      [] t = TypeRegType -> oidColTypeRegType
      [] OTHER -> Nil

(***************************************************************************)
(* Value type -> column type.                                              *)
(***************************************************************************)
\* The first switch of DatumTypeToColumnType, on the value of t: the column
\* type it returns, or Nil when no case matches and control falls through.
\* Mutants of the first switch: NAME resolved as its base type STRING; the
\* BYTES case missing.
datumTypeSwitch_NameAsString(t) ==
    CASE t = TypeBool -> boolColTypeBool
      [] t = TypeInt -> intColTypeInt
      [] t = TypeFloat -> floatColTypeFloat
      [] t = TypeDecimal -> decimalColTypeDecimal
      [] t = TypeTimestamp -> timestampColTypeTimestamp
      [] t = TypeTimestampTZ -> timestampTzColTypeTimestampWithTZ
      [] t = TypeInterval -> intervalColTypeInterval
      [] t = TypeJSON -> jsonColType
      [] t = TypeUUID -> uuidColTypeUUID
      [] t = TypeINet -> ipnetColTypeINet
      [] t = TypeDate -> dateColTypeDate
      [] t = TypeString -> stringColTypeString
      [] t = TypeName -> stringColTypeString
      [] t = TypeBytes -> bytesColTypeBytes
      [] t \in OidTypes -> oidTypeToColType(t)
      [] OTHER -> Nil

datumTypeSwitch_NoBytes(t) ==
    CASE t = TypeBool -> boolColTypeBool
      [] t = TypeInt -> intColTypeInt
      [] t = TypeFloat -> floatColTypeFloat
      [] t = TypeDecimal -> decimalColTypeDecimal
      [] t = TypeTimestamp -> timestampColTypeTimestamp
      [] t = TypeTimestampTZ -> timestampTzColTypeTimestampWithTZ
      [] t = TypeInterval -> intervalColTypeInterval
      [] t = TypeJSON -> jsonColType
      [] t = TypeUUID -> uuidColTypeUUID
      [] t = TypeINet -> ipnetColTypeINet
      [] t = TypeDate -> dateColTypeDate
      [] t = TypeString -> stringColTypeString
      [] t = TypeName -> nameColTypeName
      [] t \in OidTypes -> oidTypeToColType(t)
      [] OTHER -> Nil

datumTypeSwitch(t) ==
    CASE t = TypeBool -> boolColTypeBool
      [] t = TypeInt -> intColTypeInt
      [] t = TypeFloat -> floatColTypeFloat
      [] t = TypeDecimal -> decimalColTypeDecimal
      [] t = TypeTimestamp -> timestampColTypeTimestamp
      [] t = TypeTimestampTZ -> timestampTzColTypeTimestampWithTZ
      [] t = TypeInterval -> intervalColTypeInterval
      [] t = TypeJSON -> jsonColType
      [] t = TypeUUID -> uuidColTypeUUID
      [] t = TypeINet -> ipnetColTypeINet
      [] t = TypeDate -> dateColTypeDate
      [] t = TypeString -> stringColTypeString
      [] t = TypeName -> nameColTypeName
      [] t = TypeBytes -> bytesColTypeBytes
      [] t \in OidTypes -> oidTypeToColType(t)
      [] OTHER -> Nil

\* Mutant of DatumTypeToColumnType: an array whose element has no column type
\* is reported as unusable itself, instead of with the element's error.
RECURSIVE DatumTypeToColumnType_OwnError(_, _, _)
DatumTypeToColumnType_OwnError(t, h, n) ==
    IF datumTypeSwitch(t) # Nil
    THEN Result(h, n, datumTypeSwitch(t), NoErr)
    ELSE CASE Head(t) = "TCollatedString" ->
                Result((NewAddr(n + 1) :> CollatedStringColType("STRING", 0, t[2]))
                           @@ h,
                       n + 1, NewAddr(n + 1), NoErr)
           [] Head(t) = "TArray" ->
                LET elem == DatumTypeToColumnType_OwnError(Tail(t), h, n)
                IN  IF elem.err # NoErr
                    THEN Result(elem.heap, elem.n, Nil,
                                <<CodeInvalidTableDefinitionError>> \o t)
                    ELSE arrayOf(elem.heap, elem.n, elem.ret, NoBounds)
           [] Head(t) = "TOidWrapper" ->
                DatumTypeToColumnType_OwnError(Tail(t), h, n)
           [] OTHER -> Result(h, n, Nil, <<CodeInvalidTableDefinitionError>> \o t)

RECURSIVE DatumTypeToColumnType(_, _, _)
DatumTypeToColumnType(t, h, n) ==
    IF datumTypeSwitch(t) # Nil
    THEN Result(h, n, datumTypeSwitch(t), NoErr)
    ELSE CASE Head(t) = "TCollatedString" ->
                Result((NewAddr(n + 1) :> CollatedStringColType("STRING", 0, t[2]))
                           @@ h,
                       n + 1, NewAddr(n + 1), NoErr)
           [] Head(t) = "TArray" ->
                LET elem == DatumTypeToColumnType(Tail(t), h, n)
                IN  IF elem.err # NoErr
                    THEN Result(elem.heap, elem.n, Nil, elem.err)
                    ELSE arrayOf(elem.heap, elem.n, elem.ret, NoBounds)
           [] Head(t) = "TOidWrapper" -> DatumTypeToColumnType(Tail(t), h, n)
           [] OTHER -> Result(h, n, Nil, <<CodeInvalidTableDefinitionError>> \o t)

(***************************************************************************)
(* Column type -> value type.                                              *)
(***************************************************************************)
\* The cases of CastTargetToDatumType that do not recurse.
castTargetSwitch(h, t) ==
    LET ct == h[t] IN
    CASE ct.variant = "BoolColType" -> TypeBool
      [] ct.variant = "IntColType" -> TypeInt
      [] ct.variant = "FloatColType" -> TypeFloat
      [] ct.variant = "DecimalColType" -> TypeDecimal
      [] ct.variant = "StringColType" -> TypeString
      [] ct.variant = "NameColType" -> TypeName
      [] ct.variant = "BytesColType" -> TypeBytes
      [] ct.variant = "DateColType" -> TypeDate
      [] ct.variant = "TimestampColType" -> TypeTimestamp
      [] ct.variant = "TimestampTZColType" -> TypeTimestampTZ
      [] ct.variant = "IntervalColType" -> TypeInterval
      [] ct.variant = "JSONColType" -> TypeJSON
      [] ct.variant = "UUIDColType" -> TypeUUID
      [] ct.variant = "IPAddrColType" -> TypeINet
      [] ct.variant = "CollatedStringColType" -> TCollatedString(ct.Locale)
      [] ct.variant = "VectorColType" -> TypeIntVector
      [] ct.variant = "OidColType" -> oidColTypeToType(t)
      [] OTHER -> PanicT

\* A panic in the element's conversion unwinds through the array's.
RECURSIVE CastTargetToDatumType(_, _)
CastTargetToDatumType(h, t) ==
    IF h[t].variant = "ArrayColType"
    THEN LET typ == CastTargetToDatumType(h, h[t].ParamType)
         IN  IF typ = PanicT THEN PanicT ELSE TArray(typ)
    ELSE castTargetSwitch(h, t)

(***************************************************************************)
(* Result columns.  TypesEqual's body is not among the sources; the test   *)
(* table of result_columns_test.go fixes its results.  The length check    *)
(* and the comparison by position follow the design description; the side  *)
(* on which a Null type is a wildcard follows the table, which expects     *)
(* r = [Null], o = [Int] to be unequal and r = [Int], o = [Null] equal.    *)
(***************************************************************************)
\* ResultColumn{Typ: t}, the other fields zero as in the test table.
ResultColumn(t) == [Name |-> "", Typ |-> t, Hidden |-> FALSE]

\* Mutants of TypesEqual: a Null on either side is a wildcard; the length
\* check lets a shorter receiver through; no length check at all.
TypesEqual_EitherSide(r, other) ==
    /\ Len(r) = Len(other)
    /\ \A i \in 1..Len(r) :
          \/ other[i].Typ = TypeNull
          \/ r[i].Typ = TypeNull
          \/ r[i].Typ = other[i].Typ

TypesEqual_LenLE(r, other) ==
    /\ Len(r) <= Len(other)
    /\ \A i \in 1..Len(r) :
          \/ other[i].Typ = TypeNull
          \/ r[i].Typ = other[i].Typ

TypesEqual_NoLenCheck(r, other) ==
    \A i \in (1..Len(r)) \cap (1..Len(other)) :
        \/ other[i].Typ = TypeNull
        \/ r[i].Typ = other[i].Typ

TypesEqual(r, other) ==
    /\ Len(r) = Len(other)
    /\ \A i \in 1..Len(r) :
          \/ other[i].Typ = TypeNull
          \/ r[i].Typ = other[i].Typ

\* The value types of the columns compared.
ColumnTyps == {TypeInt, TypeString, TypeNull}

RECURSIVE ColumnsUpTo(_)
ColumnsUpTo(k) ==
    IF k = 0 THEN {<<>>}
    ELSE LET S == ColumnsUpTo(k - 1)
         IN  S \cup {Append(cs, ResultColumn(t)) : cs \in S, t \in ColumnTyps}

\* The (receiver, argument) pairs the table compares, in order.
TestCases == <<<<teA, teB>>, <<teB, teA>>, <<teB, teC>>, <<teA, teC>>>>

(***************************************************************************)
(* Integers.  Go's int has 64 bits and a decimal context's precision 32    *)
(* unsigned ones; an int is kept as two limbs, hi * Limb + lo with lo in   *)
(* 0 .. Limb - 1, so that values past the 32-bit range can be compared,    *)
(* subtracted, truncated and printed.                                      *)
(***************************************************************************)
Limb == 65536
MaxInt32 == 2147483647
MinInt32 == -MaxInt32 - 1

\* The int of value n, for n a 32-bit value.
GoInt(n) == [hi |-> n \div Limb, lo |-> n % Limb]

Add(a, b) ==
    LET lo == a.lo + b.lo
    IN  IF lo >= Limb THEN [hi |-> a.hi + b.hi + 1, lo |-> lo - Limb]
        ELSE [hi |-> a.hi + b.hi, lo |-> lo]

Sub(a, b) ==
    LET lo == a.lo - b.lo
    IN  IF lo < 0 THEN [hi |-> a.hi - b.hi - 1, lo |-> lo + Limb]
        ELSE [hi |-> a.hi - b.hi, lo |-> lo]

Lt(a, b) == a.hi < b.hi \/ (a.hi = b.hi /\ a.lo < b.lo)

\* uint32(a): the low 32 bits.
uint32(a) == [hi |-> a.hi % Limb, lo |-> a.lo]

\* int32(a): the low 32 bits as a signed value.
int32(a) ==
    LET h == a.hi % Limb
    IN  (IF h >= Limb \div 2 THEN h - Limb ELSE h) * Limb + a.lo

\* Mutant of NegInt32: the value is not negated.
NegInt32_Same(n) == n

\* -n in 32 bits: the least value is its own negation.
NegInt32(n) == IF n = MinInt32 THEN MinInt32 ELSE -n

\* fmt's %d.
RECURSIVE NatString(_)
NatString(a) ==
    IF a.hi = 0 THEN ToString(a.lo)
    ELSE LET t == (a.hi % 10) * Limb + a.lo
         IN  NatString([hi |-> a.hi \div 10, lo |-> t \div 10])
                 \o ToString(t % 10)

IntString(a) ==
    IF a.hi < 0 THEN "-" \o NatString(Sub(GoInt(0), a)) ELSE NatString(a)

(***************************************************************************)
(* Decimals (apd.Decimal) and decimal contexts (apd.Context).  A finite    *)
(* decimal is (-1)^Negative * Coeff * 10^Exponent.                         *)
(***************************************************************************)
Finite == "Finite"
Infinite == "Infinite"
NaN == "NaN"

Decimal(form, negative, coeff, exponent) ==
    [Form |-> form, Negative |-> negative, Coeff |-> coeff,
     Exponent |-> exponent]

decimalNaN == Decimal(NaN, FALSE, 0, 0)

\* The number of decimal digits of a coefficient; zero has one.
RECURSIVE NumDigits(_)
NumDigits(n) == IF n < 10 THEN 1 ELSE 1 + NumDigits(n \div 10)

InvalidOperation == "InvalidOperation"
Inexact == "Inexact"
RoundHalfUp == "RoundHalfUp"

Context(precision, traps) ==
    [Precision |-> precision, Traps |-> traps, Rounding |-> RoundHalfUp]

\* The address of the package's shared context.
DecimalCtx == "DecimalCtx"

\* The values the shared context may have been configured with.
DecimalCtxChoices ==
    {Context(GoInt(prec), traps) : prec \in {2, 20}, traps \in {{}, {Inexact}}}

\* c.WithPrecision(p) in goroutine g: a copy of the context at a with its
\* precision replaced.  Returns the contexts and the copy's address.
WithPrecision(cs, a, p, g) ==
    LET copy == "ctx" \o ToString(g)
    IN  [ctxs |-> (copy :> [cs[a] EXCEPT !.Precision = p]) @@ cs, ret |-> copy]

\* x represented with exponent exp, its coefficient rounded half up.
quantize(x, exp) ==
    IF x.Exponent >= exp
    THEN [x EXCEPT !.Coeff = IF @ = 0 THEN 0 ELSE @ * 10^(x.Exponent - exp),
                   !.Exponent = exp]
    ELSE LET k == exp - x.Exponent
         IN  [x EXCEPT !.Coeff =
                           IF k > NumDigits(@) THEN 0
                           ELSE (@ \div 10^k)
                                    + (IF 2 * (@ % 10^k) >= 10^k THEN 1 ELSE 0),
                       !.Exponent = exp]

\* c.Quantize(d, x, exp): the values it may leave in d, each with whether it
\* returns an error.  A result of more digits than the precision is an
\* invalid operation, an error when trapped; d then holds NaN or the rounded
\* value, as the library's version has it.
Quantize(c, x, exp) ==
    IF x.Form # Finite
    THEN {[d |-> decimalNaN, err |-> InvalidOperation \in c.Traps]}
    ELSE LET r == quantize(x, exp)
         IN  IF Lt(c.Precision, GoInt(NumDigits(r.Coeff)))
             THEN {[d |-> v, err |-> InvalidOperation \in c.Traps] :
                     v \in {decimalNaN, r}}
             ELSE {[d |-> r, err |-> FALSE]}

(***************************************************************************)
(* LimitDecimalWidth.                                                      *)
(***************************************************************************)
CodeInvalidParameterValueError == "InvalidParameterValue"
CodeNumericValueOutOfRangeError == "NumericValueOutOfRange"

errScaleOutOfRange == <<CodeNumericValueOutOfRangeError, "scale out of range">>

errScaleAbovePrecision(precision, scale) ==
    <<CodeInvalidParameterValueError,
      "scale (" \o IntString(scale) \o ") must be between 0 and precision ("
          \o IntString(precision) \o ")">>

\* Mutants of EarlyReturn: a non-positive precision is not a reason to
\* return; a scale above the precision is let through; the scale is compared
\* with the precision before it is compared with the exponent range.
EarlyReturn_AnyPrecision(d, precision, scale) ==
    IF d.Form # Finite THEN <<NoErr>>
    ELSE IF Lt(scale, GoInt(MinInt32 + 1)) \/ Lt(GoInt(MaxInt32), scale)
    THEN <<errScaleOutOfRange>>
    ELSE IF Lt(precision, scale)
    THEN <<errScaleAbovePrecision(precision, scale)>>
    ELSE <<>>

EarlyReturn_AnyScale(d, precision, scale) ==
    IF d.Form # Finite \/ ~Lt(GoInt(0), precision) THEN <<NoErr>>
    ELSE IF Lt(scale, GoInt(MinInt32 + 1)) \/ Lt(GoInt(MaxInt32), scale)
    THEN <<errScaleOutOfRange>>
    ELSE <<>>

EarlyReturn_PrecisionFirst(d, precision, scale) ==
    IF d.Form # Finite \/ ~Lt(GoInt(0), precision) THEN <<NoErr>>
    ELSE IF Lt(precision, scale)
    THEN <<errScaleAbovePrecision(precision, scale)>>
    ELSE IF Lt(scale, GoInt(MinInt32 + 1)) \/ Lt(GoInt(MaxInt32), scale)
    THEN <<errScaleOutOfRange>>
    ELSE <<>>

\* The returns of LimitDecimalWidth ahead of the quantization: <<e>> when it
\* returns e there, <<>> when it goes on.
EarlyReturn(d, precision, scale) ==
    IF d.Form # Finite \/ ~Lt(GoInt(0), precision) THEN <<NoErr>>
    ELSE IF Lt(scale, GoInt(MinInt32 + 1)) \/ Lt(GoInt(MaxInt32), scale)
    THEN <<errScaleOutOfRange>>
    ELSE IF Lt(precision, scale)
    THEN <<errScaleAbovePrecision(precision, scale)>>
    ELSE <<>>

\* The error for a value that does not fit the precision.
errOutOfRange(precision, scale) ==
    LET v == Sub(precision, scale)
        lt == IF v = GoInt(0) THEN "1" ELSE "10^" \o IntString(v)
    IN  <<CodeNumericValueOutOfRangeError,
          "value with precision " \o IntString(precision) \o ", scale "
              \o IntString(scale)
              \o " must round to an absolute value less than " \o lt>>

(***************************************************************************)
(* The sqlfmt command.  One run of the process: main builds a SqlfmtCtx    *)
(* and calls runSQLFmt, which checks the widths, reads standard input,     *)
(* parses it and prints every statement.  sqlfmt.events lists the calls    *)
(* made so far, sqlfmt.stdout what was written to standard output.  An     *)
(* error of errors.Errorf or of a callee is the sequence of its message.   *)
(***************************************************************************)
SqlfmtCtx(len, useSpaces, tabWidth, noSimplify, align, formatPath) ==
    [len |-> len, useSpaces |-> useSpaces, tabWidth |-> tabWidth,
     noSimplify |-> noSimplify, align |-> align, formatPath |-> formatPath]

\* The texts standard input may hold, statement by statement; "SELEC" is
\* not a statement.
Stdins ==
    {<<>>, <<"SELECT 1">>, <<"SELECT 1", "SELECT 2">>, <<"SELEC">>,
     <<"SELECT 1", "SELEC">>}

\* The values of the -len and -tab-width flags.
FlagLens == {-1, 0, 1, 80}
FlagTabWidths == {0, 1, 4}

\* parser.Parse(sql): the statements of the text, or an error and no
\* statement when one of them is malformed.
Parse(sql) ==
    IF \E i \in 1..Len(sql) : sql[i] = "SELEC"
    THEN [sl |-> <<>>, err |-> <<"syntax error at or near \"selec\"">>]
    ELSE [sl |-> sql, err |-> NoErr]

\* The configuration runSQLFmt builds from its argument.
PrettyCfg(sqlfmtCtx) ==
    [UseTabs |-> ~sqlfmtCtx.useSpaces,
     LineWidth |-> sqlfmtCtx.len,
     TabWidth |-> sqlfmtCtx.tabWidth,
     Simplify |-> ~sqlfmtCtx.noSimplify,
     Align |-> IF sqlfmtCtx.align THEN "PrettyAlignAndDeindent"
               ELSE "PrettyNoAlign",
     JSONFmt |-> TRUE]

\* cfg.Pretty(ast): the text the layout engine produces for a statement
\* under a configuration.
Pretty(cfg, ast) == [Pretty |-> ast, cfg |-> cfg]

\* The widths checked the other way round.
WidthError_TabFirst(sqlfmtCtx) ==
    IF sqlfmtCtx.tabWidth < 1
    THEN <<"tab width must be > 0: " \o ToString(sqlfmtCtx.tabWidth)>>
    ELSE IF sqlfmtCtx.len < 1
    THEN <<"line length must be > 0: " \o ToString(sqlfmtCtx.len)>>
    ELSE NoErr

\* The two checks runSQLFmt opens with: the error it returns, or none.
WidthError(sqlfmtCtx) ==
    IF sqlfmtCtx.len < 1
    THEN <<"line length must be > 0: " \o ToString(sqlfmtCtx.len)>>
    ELSE IF sqlfmtCtx.tabWidth < 1
    THEN <<"tab width must be > 0: " \o ToString(sqlfmtCtx.tabWidth)>>
    ELSE NoErr

\* A process not yet started, with the text on its standard input and
\* whether reading it fails.  exit is -1 while the process runs.
IdleRun(stdin, readFails) ==
    [pc |-> "idle", stdin |-> stdin, readFails |-> readFails,
     ctx |-> SqlfmtCtx(0, FALSE, 0, FALSE, FALSE, ""),
     in |-> <<>>, sl |-> <<>>, i |-> 0, events |-> <<>>, stdout |-> <<>>,
     ret |-> NoErr, exit |-> -1]

\* No sqlfmt process runs.
SqlfmtIdle == sqlfmt = IdleRun(<<>>, FALSE)

(***************************************************************************)
(* Initial states.                                                         *)
(***************************************************************************)
ResolverIdle ==
    /\ heap = Catalog
    /\ nalloc = 0
    /\ op = "init"
    /\ argT = NoT
    /\ argC = Nil
    /\ argB = NoBounds
    /\ retC = Nil
    /\ retT = NoT
    /\ err = NoErr
    /\ argF = FmtSimple
    /\ retS = ""

TEIdle ==
    /\ teA = <<>>
    /\ teB = <<>>
    /\ teC = <<>>
    /\ teGot = <<>>

\* A call of LimitDecimalWidth not yet made: every variable at its zero value.
IdleCall ==
    [pc |-> "idle", d |-> Decimal(Finite, FALSE, 0, 0),
     d0 |-> Decimal(Finite, FALSE, 0, 0), precision |-> GoInt(0),
     scale |-> GoInt(0), c |-> Nil, err |-> NoErr,
     used |-> Context(GoInt(0), {})]

\* No goroutine limits a decimal.
DecimalIdle ==
    /\ ctxs = [a \in {DecimalCtx} |-> Context(GoInt(20), {})]
    /\ calls = <<>>

\* The process after package initialisation, under either configuration.
Init ==
    /\ ResolverIdle
    /\ nonIndexable \in {{}, {"JSONColType"}}
    /\ TEIdle
    /\ DecimalIdle
    /\ SqlfmtIdle

\* A comparison table of three ResultColumns values, no comparison made yet.
TEInit ==
    /\ ResolverIdle
    /\ nonIndexable = {}
    /\ teA \in ColumnsUpTo(MaxCols)
    /\ teB \in ColumnsUpTo(MaxCols)
    /\ teC \in ColumnsUpTo(MaxCols)
    /\ teGot = <<>>
    /\ DecimalIdle
    /\ SqlfmtIdle

\* One goroutine about to limit a decimal.
WidthInit ==
    /\ ResolverIdle
    /\ nonIndexable = {}
    /\ TEIdle
    /\ ctxs \in [{DecimalCtx} -> DecimalCtxChoices]
    /\ calls = <<IdleCall>>
    /\ SqlfmtIdle

\* NProcs goroutines, each about to limit a decimal of its own.
ConcInit ==
    /\ ResolverIdle
    /\ nonIndexable = {}
    /\ TEIdle
    /\ ctxs \in [{DecimalCtx} -> DecimalCtxChoices]
    /\ calls = [g \in 1..NProcs |-> IdleCall]
    /\ SqlfmtIdle

(***************************************************************************)
(* Actions of the type resolver.  A caller holds the column type it passed *)
(* to the last call (argC) and the one the call returned (retC); a struct  *)
(* neither these nor the package variables reach is garbage and leaves the *)
(* heap.  Every function takes a single column type, so a call's argument  *)
(* is a pre-allocated type or the type the last call returned.             *)
(***************************************************************************)
\* The structs reachable from address a.
RECURSIVE Reach(_, _)
Reach(h, a) ==
    IF a = Nil THEN {}
    ELSE IF h[a].variant \in {"ArrayColType", "VectorColType"}
         THEN {a} \cup Reach(h, h[a].ParamType)
         ELSE {a}

\* The heap h after collecting what the package variables and the caller's
\* two variables do not reach.
Collect(h, arg, ret) ==
    [a \in DOMAIN Catalog \cup Reach(h, arg) \cup Reach(h, ret) |-> h[a]]

\* The column types a call can be made with.
ColTypeArgs == DOMAIN Catalog \cup ({retC} \ {Nil})

\* The bounds expressions arrayOf is called with.
BoundsChoices == {NoBounds, <<"1">>}

\* The struct literals callers allocate themselves.
Literals ==
    {FloatColType("", 0, 0, FALSE)}
        \cup {OidColType(name) :
                name \in {"OID", "REGCLASS", "REGNAMESPACE", "REGPROC",
                          "REGPROCEDURE", "REGTYPE"}}

\* colType, err := DatumTypeToColumnType(t)
CallDatumTypeToColumnType(t) ==
    LET r == DatumTypeToColumnType(t, heap, nalloc) IN
    /\ r.n <= MaxAlloc
    /\ heap' = Collect(r.heap, Nil, r.ret)
    /\ nalloc' = r.n
    /\ op' = "DatumTypeToColumnType"
    /\ argT' = t
    /\ argC' = Nil
    /\ argB' = NoBounds
    /\ retC' = r.ret
    /\ retT' = NoT
    /\ err' = r.err
    /\ argF' = FmtSimple
    /\ retS' = ""
    /\ UNCHANGED <<nonIndexable, ctxs, calls, teA, teB, teC, teGot, sqlfmt>>

\* colType, err := arrayOf(colType, boundsExprs)
CallArrayOf(colType, boundsExprs) ==
    LET r == arrayOf(heap, nalloc, colType, boundsExprs) IN
    /\ r.n <= MaxAlloc
    /\ heap' = Collect(r.heap, colType, r.ret)
    /\ nalloc' = r.n
    /\ op' = "arrayOf"
    /\ argT' = NoT
    /\ argC' = colType
    /\ argB' = boundsExprs
    /\ retC' = r.ret
    /\ retT' = NoT
    /\ err' = r.err
    /\ argF' = FmtSimple
    /\ retS' = ""
    /\ UNCHANGED <<nonIndexable, ctxs, calls, teA, teB, teC, teGot, sqlfmt>>

\* typ := CastTargetToDatumType(t); a panic is recorded as the error.
CallCastTargetToDatumType(t) ==
    LET typ == CastTargetToDatumType(heap, t) IN
    /\ heap' = Collect(heap, t, Nil)
    /\ op' = "CastTargetToDatumType"
    /\ argT' = NoT
    /\ argC' = t
    /\ argB' = NoBounds
    /\ retC' = Nil
    /\ retT' = IF typ = PanicT THEN NoT ELSE typ
    /\ err' = IF typ = PanicT THEN Panicked ELSE NoErr
    /\ argF' = FmtSimple
    /\ retS' = ""
    /\ UNCHANGED <<nalloc, nonIndexable, ctxs, calls, teA, teB, teC, teGot, sqlfmt>>

\* t := &OidColType{Name: ...}, &FloatColType{}: a caller's own struct.
NewColTypeLiteral(node) ==
    /\ nalloc < MaxAlloc
    /\ heap' = Collect((NewAddr(nalloc + 1) :> node) @@ heap, Nil,
                       NewAddr(nalloc + 1))
    /\ nalloc' = nalloc + 1
    /\ op' = "literal"
    /\ argT' = NoT
    /\ argC' = Nil
    /\ argB' = NoBounds
    /\ retC' = NewAddr(nalloc + 1)
    /\ retT' = NoT
    /\ err' = NoErr
    /\ argF' = FmtSimple
    /\ retS' = ""
    /\ UNCHANGED <<nonIndexable, ctxs, calls, teA, teB, teC, teGot, sqlfmt>>

\* The formatting flags Format is called with.
FmtFlagsChoices == {FmtSimple, FmtBareIdentifiers}

\* node.Format(buf, f), on an empty buffer.
CallFormat(t, f) ==
    /\ heap' = Collect(heap, t, Nil)
    /\ op' = "Format"
    /\ argT' = NoT
    /\ argC' = t
    /\ argB' = NoBounds
    /\ retC' = Nil
    /\ retT' = NoT
    /\ err' = NoErr
    /\ argF' = f
    /\ retS' = Format(heap, t, f)
    /\ UNCHANGED <<nalloc, nonIndexable, ctxs, calls, teA, teB, teC, teGot, sqlfmt>>

\* colType := NewFloatColType(prec, precSpecified)
CallNewFloatColType(prec, precSpecified) ==
    LET r == NewFloatColType(heap, nalloc, prec, precSpecified) IN
    /\ r.n <= MaxAlloc
    /\ heap' = Collect(r.heap, Nil, r.ret)
    /\ nalloc' = r.n
    /\ op' = "NewFloatColType"
    /\ argT' = NoT
    /\ argC' = Nil
    /\ argB' = NoBounds
    /\ retC' = r.ret
    /\ retT' = NoT
    /\ err' = NoErr
    /\ argF' = FmtSimple
    /\ retS' = ""
    /\ UNCHANGED <<nonIndexable, ctxs, calls, teA, teB, teC, teGot, sqlfmt>>

Next ==
    \/ \E t \in ValueTypes : CallDatumTypeToColumnType(t)
    \/ \E colType \in ColTypeArgs, boundsExprs \in BoundsChoices :
          CallArrayOf(colType, boundsExprs)
    \/ \E t \in ColTypeArgs : CallCastTargetToDatumType(t)
    \/ \E node \in Literals : NewColTypeLiteral(node)

Spec == Init /\ [][Next]_vars

(***************************************************************************)
(* Rendering: of the structs with numeric parameters a caller fills in     *)
(* itself, of the FLOAT types NewFloatColType returns, and of the arrays   *)
(* arrayOf and DatumTypeToColumnType build.                                *)
(***************************************************************************)
\* The parameterised structs callers allocate themselves.
ParamLiterals ==
    {IntColType(name, width, implicitWidth) :
        name \in {"INT", "BIT"}, width \in {0, 1, 16},
        implicitWidth \in BOOLEAN}
    \cup {DecimalColType("DECIMAL", prec, scale) :
            prec \in {-1, 0, 3}, scale \in {0, 2}}
    \cup {StringColType(name, n) : name \in {"STRING", "VARCHAR"}, n \in {0, 10}}
    \cup {CollatedStringColType("STRING", n, locale) :
            n \in {0, 10}, locale \in Locales}

\* The precisions NewFloatColType is called with.
FloatPrecs == {0, 5}

\* The value types rendered after their conversion to a column type.
RenderedTypes ==
    {TypeInt, TArray(TypeInt)}
        \cup {TCollatedString(l) : l \in Locales}
        \cup {TArray(TCollatedString(l)) : l \in Locales}

\* The widths newIntBitType is called with.
BitWidths == {-1, 0, 1, 5}

errBitLengthNotPositive ==
    <<CodeInvalidParameterValueError, "length for type bit must be at least 1">>

\* Mutant of newIntBitType: a width of 0 is accepted.
newIntBitType_ZeroAllowed(h, n, width) ==
    IF width < 0
    THEN Result(h, n, Nil, errBitLengthNotPositive)
    ELSE LET a == NewAddr(n + 1)
         IN  Result((a :> IntColType("BIT", width, FALSE)) @@ h, n + 1, a, NoErr)

\* newIntBitType(width): a new BIT type of that width, or the error.
newIntBitType(h, n, width) ==
    IF width < 1
    THEN Result(h, n, Nil, errBitLengthNotPositive)
    ELSE LET a == NewAddr(n + 1)
         IN  Result((a :> IntColType("BIT", width, FALSE)) @@ h, n + 1, a, NoErr)

\* colType, err := newIntBitType(width)
CallNewIntBitType(width) ==
    LET r == newIntBitType(heap, nalloc, width) IN
    /\ r.n <= MaxAlloc
    /\ heap' = Collect(r.heap, Nil, r.ret)
    /\ nalloc' = r.n
    /\ op' = "newIntBitType"
    /\ argT' = NoT
    /\ argC' = Nil
    /\ argB' = NoBounds
    /\ retC' = r.ret
    /\ retT' = NoT
    /\ err' = r.err
    /\ argF' = FmtSimple
    /\ retS' = ""
    /\ UNCHANGED <<nonIndexable, ctxs, calls, teA, teB, teC, teGot, sqlfmt>>

FmtInit ==
    /\ ResolverIdle
    /\ nonIndexable = {}
    /\ TEIdle
    /\ DecimalIdle
    /\ SqlfmtIdle

FmtNext ==
    \/ \E node \in ParamLiterals : NewColTypeLiteral(node)
    \/ \E prec \in FloatPrecs, precSpecified \in BOOLEAN :
          CallNewFloatColType(prec, precSpecified)
    \/ \E width \in BitWidths : CallNewIntBitType(width)
    \/ \E t \in RenderedTypes : CallDatumTypeToColumnType(t)
    \/ \E colType \in ColTypeArgs, boundsExprs \in BoundsChoices :
          CallArrayOf(colType, boundsExprs)
    \/ \E t \in ColTypeArgs, f \in FmtFlagsChoices : CallFormat(t, f)

FmtSpec == FmtInit /\ [][FmtNext]_vars

(***************************************************************************)
(* The comparison table's loop.                                            *)
(***************************************************************************)
\* eq := tc.r.TypesEqual(tc.o), for the next case of the table.
TypesEqualCall ==
    /\ Len(teGot) < Len(TestCases)
    /\ LET tc == TestCases[Len(teGot) + 1]
       IN  teGot' = Append(teGot, TypesEqual(tc[1], tc[2]))
    /\ UNCHANGED <<heap, nalloc, nonIndexable, op, argT, argC, argB, retC, retT,
                   err, argF, retS, ctxs, calls, teA, teB, teC, sqlfmt>>

TENext == TypesEqualCall

TESpec == TEInit /\ [][TENext]_vars

(***************************************************************************)
(* LimitDecimalWidth(d, precision, scale) in goroutine g, in the steps at  *)
(* which it reads or writes a decimal context: the early returns, the copy *)
(* of the shared context, the assignment of the copy's traps, and the      *)
(* quantization with the return that follows it.                           *)
(***************************************************************************)
columnVars == <<heap, nalloc, nonIndexable, op, argT, argC, argB, retC, retT,
                err, argF, retS, teA, teB, teC, teGot, sqlfmt>>

\* The decimals LimitDecimalWidth is called with: NaN, the infinities, 0,
\* 0.5, 0.95, 1.005, 9.995, -9.995, 123 and 12345.
Decimals ==
    {decimalNaN, Decimal(Infinite, FALSE, 0, 0), Decimal(Infinite, TRUE, 0, 0),
     Decimal(Finite, FALSE, 0, 0), Decimal(Finite, FALSE, 5, -1),
     Decimal(Finite, FALSE, 95, -2), Decimal(Finite, FALSE, 1005, -3),
     Decimal(Finite, FALSE, 9995, -3), Decimal(Finite, TRUE, 9995, -3),
     Decimal(Finite, FALSE, 123, 0), Decimal(Finite, FALSE, 12345, 0)}

\* The least int that uint32 truncates.
TwoTo32 == Add(Add(GoInt(MaxInt32), GoInt(MaxInt32)), GoInt(2))

\* The precisions and scales it is called with; ints, so not all within 32
\* bits.
Precisions ==
    {GoInt(-1), GoInt(0), GoInt(1), GoInt(3), GoInt(5), Add(TwoTo32, GoInt(3))}
Scales ==
    {GoInt(MinInt32), GoInt(-1), GoInt(0), GoInt(1), GoInt(2), GoInt(10),
     Add(GoInt(MaxInt32), GoInt(1))}

\* The calls of concurrent goroutines.
ConcDecimals == {Decimal(Finite, FALSE, 5, -1), Decimal(Finite, FALSE, 12345, 0)}
ConcPrecisions == {GoInt(1), GoInt(3)}
ConcScales == {GoInt(0)}

\* Whether the quantization of x to scale fractional digits stays within
\* MaxCoeffDigits digits.
WithinDigits(x, scale) ==
    \/ x.Coeff = 0
    \/ LET grow == Add(scale, GoInt(x.Exponent))
           more == IF Lt(GoInt(0), grow) THEN grow ELSE GoInt(0)
       IN  Lt(Add(more, GoInt(NumDigits(x.Coeff))), GoInt(MaxCoeffDigits + 1))

\* Lines 209-219: the call, up to the quantization.
LimitDecimalWidth(g, x, precision, scale) ==
    LET early == EarlyReturn(x, precision, scale) IN
    /\ calls[g].pc = "idle"
    /\ IF early = <<>> THEN WithinDigits(x, scale) ELSE TRUE
    /\ calls' = [calls EXCEPT ![g] =
                    [@ EXCEPT !.d = x, !.d0 = x, !.precision = precision,
                              !.scale = scale,
                              !.pc = IF early = <<>> THEN "WithPrecision"
                                     ELSE "done",
                              !.err = IF early = <<>> THEN NoErr ELSE early[1]]]
    /\ UNCHANGED ctxs
    /\ UNCHANGED columnVars

\* Mutant of CopyContext: c := DecimalCtx; c.Precision = uint32(precision)
CopyContext_Shared(g) ==
    /\ calls[g].pc = "WithPrecision"
    /\ ctxs' = [ctxs EXCEPT ![DecimalCtx].Precision = uint32(calls[g].precision)]
    /\ calls' = [calls EXCEPT ![g] = [@ EXCEPT !.c = DecimalCtx, !.pc = "Traps"]]
    /\ UNCHANGED columnVars

\* Line 229: c := DecimalCtx.WithPrecision(uint32(precision))
CopyContext(g) ==
    LET r == WithPrecision(ctxs, DecimalCtx, uint32(calls[g].precision), g) IN
    /\ calls[g].pc = "WithPrecision"
    /\ ctxs' = r.ctxs
    /\ calls' = [calls EXCEPT ![g] = [@ EXCEPT !.c = r.ret, !.pc = "Traps"]]
    /\ UNCHANGED columnVars

\* Line 230: c.Traps = apd.InvalidOperation
SetTraps(g) ==
    /\ calls[g].pc = "Traps"
    /\ ctxs' = [ctxs EXCEPT ![calls[g].c].Traps = {InvalidOperation}]
    /\ calls' = [calls EXCEPT ![g] = [@ EXCEPT !.pc = "Quantize"]]
    /\ UNCHANGED columnVars

\* Lines 232-242: c.Quantize(d, d, -int32(scale)) and the return; the copy of
\* the context is garbage from then on.
QuantizeAndReturn(g) ==
    LET call == calls[g] IN
    /\ call.pc = "Quantize"
    /\ \E q \in Quantize(ctxs[call.c], call.d, NegInt32(int32(call.scale))) :
          calls' = [calls EXCEPT ![g] =
                      [@ EXCEPT !.d = q.d,
                                !.err = IF q.err
                                        THEN errOutOfRange(call.precision,
                                                           call.scale)
                                        ELSE NoErr,
                                !.used = ctxs[call.c],
                                !.c = Nil,
                                !.pc = "done"]]
    /\ ctxs' = [a \in DOMAIN ctxs \ ({call.c} \ {DecimalCtx}) |-> ctxs[a]]
    /\ UNCHANGED columnVars

WidthNext ==
    \/ \E g \in DOMAIN calls, x \in Decimals, precision \in Precisions,
          scale \in Scales : LimitDecimalWidth(g, x, precision, scale)
    \/ \E g \in DOMAIN calls : CopyContext(g)
    \/ \E g \in DOMAIN calls : SetTraps(g)
    \/ \E g \in DOMAIN calls : QuantizeAndReturn(g)

WidthSpec == WidthInit /\ [][WidthNext]_vars

ConcNext ==
    \/ \E g \in DOMAIN calls, x \in ConcDecimals, precision \in ConcPrecisions,
          scale \in ConcScales : LimitDecimalWidth(g, x, precision, scale)
    \/ \E g \in DOMAIN calls : CopyContext(g)
    \/ \E g \in DOMAIN calls : SetTraps(g)
    \/ \E g \in DOMAIN calls : QuantizeAndReturn(g)

ConcSpec == ConcInit /\ [][ConcNext]_vars

(***************************************************************************)
(* The steps of a sqlfmt process.                                          *)
(***************************************************************************)
\* The variables of the column-type package.
packageVars == <<heap, nalloc, nonIndexable, op, argT, argC, argB, retC, retT,
                 err, argF, retS, ctxs, calls, teA, teB, teC, teGot>>

\* main of pkg/cmd/sqlfmt/main.go, up to its call of runSQLFmt: the flags
\* are parsed; with other than one argument the usage goes to standard
\* error and the process exits with status 1.
main(flagLen, flagUseSpaces, flagTabWidth, flagNoSimplify, flagAlign, narg) ==
    /\ sqlfmt.pc = "idle"
    /\ sqlfmt' =
          IF narg # 1
          THEN [sqlfmt EXCEPT !.pc = "exited", !.exit = 1]
          ELSE [sqlfmt EXCEPT
                   !.pc = "runSQLFmt",
                   !.events = Append(@, "runSQLFmt"),
                   !.ctx = SqlfmtCtx(flagLen, flagUseSpaces, flagTabWidth,
                                     flagNoSimplify, flagAlign, "")]
    /\ UNCHANGED packageVars

\* main of the earlier copy of the command, which passes fixed settings.
main_part_000 ==
    /\ sqlfmt.pc = "idle"
    /\ sqlfmt' = [sqlfmt EXCEPT
                     !.pc = "runSQLFmt",
                     !.events = Append(@, "runSQLFmt"),
                     !.ctx = SqlfmtCtx(80, TRUE, 2, TRUE, TRUE, "")]
    /\ UNCHANGED packageVars

\* runSQLFmt: the checks of the line length and of the tab width.
runSQLFmt_Widths ==
    /\ sqlfmt.pc = "runSQLFmt"
    /\ LET e == WidthError(sqlfmt.ctx) IN
       sqlfmt' = IF e # NoErr
                 THEN [sqlfmt EXCEPT !.pc = "returned", !.ret = e]
                 ELSE [sqlfmt EXCEPT !.pc = "ReadAll"]
    /\ UNCHANGED packageVars

\* in, err := io.ReadAll(os.Stdin); if err != nil { return err }
runSQLFmt_ReadAll ==
    /\ sqlfmt.pc = "ReadAll"
    /\ sqlfmt' =
          IF sqlfmt.readFails
          THEN [sqlfmt EXCEPT !.pc = "returned",
                              !.ret = <<"read /dev/stdin: input/output error">>,
                              !.events = Append(@, "io.ReadAll")]
          ELSE [sqlfmt EXCEPT !.pc = "Parse", !.in = sqlfmt.stdin,
                              !.events = Append(@, "io.ReadAll")]
    /\ UNCHANGED packageVars

\* sl, err = parser.Parse(string(in)); if err != nil { return err }
runSQLFmt_Parse ==
    /\ sqlfmt.pc = "Parse"
    /\ LET r == Parse(sqlfmt.in) IN
       sqlfmt' =
          IF r.err # NoErr
          THEN [sqlfmt EXCEPT !.pc = "returned", !.ret = r.err,
                              !.events = Append(@, "parser.Parse")]
          ELSE [sqlfmt EXCEPT !.pc = "Print", !.sl = r.sl, !.i = 1,
                              !.events = Append(@, "parser.Parse")]
    /\ UNCHANGED packageVars

\* One round of the loop over the statements: the statement laid out, a
\* semicolon when there are several statements, and a newline.
runSQLFmt_Print ==
    /\ sqlfmt.pc = "Print"
    /\ sqlfmt.i <= Len(sqlfmt.sl)
    /\ LET text == Pretty(PrettyCfg(sqlfmt.ctx), sqlfmt.sl[sqlfmt.i])
           line == IF Len(sqlfmt.sl) > 1 THEN <<text, ";", "\n">>
                   ELSE <<text, "\n">>
       IN  sqlfmt' = [sqlfmt EXCEPT !.stdout = @ \o line, !.i = @ + 1,
                                    !.events = Append(@, "fmt.Print")]
    /\ UNCHANGED packageVars

\* The loop is over: return nil.
runSQLFmt_Return ==
    /\ sqlfmt.pc = "Print"
    /\ sqlfmt.i > Len(sqlfmt.sl)
    /\ sqlfmt' = [sqlfmt EXCEPT !.pc = "returned", !.ret = NoErr]
    /\ UNCHANGED packageVars

\* main after runSQLFmt has returned: the call is an expression statement,
\* its result is dropped, main returns and the process exits with status 0.
main_Return ==
    /\ sqlfmt.pc = "returned"
    /\ sqlfmt' = [sqlfmt EXCEPT !.pc = "exited", !.exit = 0]
    /\ UNCHANGED packageVars

\* A process about to start, with some text on its standard input.
SqlfmtInit ==
    /\ ResolverIdle
    /\ nonIndexable = {}
    /\ TEIdle
    /\ DecimalIdle
    /\ sqlfmt \in {IdleRun(stdin, readFails) :
                      stdin \in Stdins, readFails \in BOOLEAN}

SqlfmtNext ==
    \/ \E flagLen \in FlagLens, flagTabWidth \in FlagTabWidths, narg \in {0, 1, 2},
          flagUseSpaces \in BOOLEAN, flagNoSimplify \in BOOLEAN,
          flagAlign \in BOOLEAN :
          main(flagLen, flagUseSpaces, flagTabWidth, flagNoSimplify,
               flagAlign, narg)
    \/ main_part_000
    \/ runSQLFmt_Widths
    \/ runSQLFmt_ReadAll
    \/ runSQLFmt_Parse
    \/ runSQLFmt_Print
    \/ runSQLFmt_Return
    \/ main_Return

SqlfmtSpec == SqlfmtInit /\ [][SqlfmtNext]_vars

(***************************************************************************)
(* Properties of TypesEqual, over the comparison table: teGot[1] is        *)
(* teA.TypesEqual(teB), teGot[2] is teB.TypesEqual(teA), teGot[3] is       *)
(* teB.TypesEqual(teC) and teGot[4] is teA.TypesEqual(teC).                *)
(***************************************************************************)
Typs(cs) == [i \in 1..Len(cs) |-> cs[i].Typ]

\* C1, as stated: for sequences of the same length, TypesEqual is true
\* exactly when at every position the types are identical or either of the
\* two is Null.
C1_EitherSideWildcard ==
    (Len(teGot) >= 1 /\ Len(teA) = Len(teB)) =>
        (teGot[1] <=>
            \A i \in 1..Len(teA) :
                \/ teA[i].Typ = teB[i].Typ
                \/ teA[i].Typ = TypeNull
                \/ teB[i].Typ = TypeNull)

\* C1, amended: for sequences of the same length, r.TypesEqual(o) is true
\* exactly when at every position the types are identical or the argument's
\* type is Null; [Int].TypesEqual([Null]) is true and
\* [Null].TypesEqual([Int]) is false.
C1_ArgumentSideWildcard ==
    /\ (Len(teGot) >= 1 /\ Len(teA) = Len(teB)) =>
          (teGot[1] <=>
              \A i \in 1..Len(teA) :
                  teA[i].Typ = teB[i].Typ \/ teB[i].Typ = TypeNull)
    /\ (Len(teGot) >= 1 /\ Typs(teA) = <<TypeInt>> /\ Typs(teB) = <<TypeNull>>)
          => teGot[1]
    /\ (Len(teGot) >= 1 /\ Typs(teA) = <<TypeNull>> /\ Typs(teB) = <<TypeInt>>)
          => ~teGot[1]

\* A comparison of [Int, Null] with the argument [Null, Null] has been made.
C1_Witness ==
    /\ Len(teGot) >= 1
    /\ Typs(teA) = <<TypeInt, TypeNull>>
    /\ Typs(teB) = <<TypeNull, TypeNull>>
    /\ teGot[1]

\* C2: Null is a wildcard only on the argument side: r = [Int], o = [Null]
\* is equal, r = [Null], o = [Int] is not, r = [Null], o = [Null] is equal.
C2_NullOnArgumentSideOnly ==
    /\ (Len(teGot) >= 2 /\ Typs(teA) = <<TypeInt>> /\ Typs(teB) = <<TypeNull>>)
          => (teGot[1] /\ ~teGot[2])
    /\ (Len(teGot) >= 1 /\ Typs(teA) = <<TypeNull>> /\ Typs(teB) = <<TypeNull>>)
          => teGot[1]

\* [Int] and [Null] have been compared both ways round.
C2_Witness ==
    /\ Len(teGot) >= 2
    /\ Typs(teA) = <<TypeInt>>
    /\ Typs(teB) = <<TypeNull>>

\* C3, as stated: a.TypesEqual(b) equals b.TypesEqual(a) for all a and b.
C3_Symmetric == Len(teGot) >= 2 => (teGot[1] <=> teGot[2])

\* Whether a and b have their Null types at the same positions (sequences of
\* different lengths count: they are unequal both ways round).
NullsAligned(a, b) ==
    Len(a) = Len(b) =>
        \A i \in 1..Len(a) : (a[i].Typ = TypeNull) <=> (b[i].Typ = TypeNull)

\* C3, amended: a.TypesEqual(b) equals b.TypesEqual(a) whenever a and b differ
\* in length or have their Null types at the same positions.
C3_SymmetricWhenNullsAligned ==
    (Len(teGot) >= 2 /\ NullsAligned(teA, teB)) => (teGot[1] <=> teGot[2])

\* Two equal sequences that hold a Null have been compared both ways round.
C3_Witness ==
    /\ Len(teGot) >= 2
    /\ Typs(teA) = <<TypeNull, TypeInt>>
    /\ Typs(teB) = <<TypeNull, TypeInt>>
    /\ teGot[1]
    /\ teGot[2]

\* C4, as stated: a = [Int], b = [Null], c = [String] has a.TypesEqual(b)
\* and b.TypesEqual(c) true and a.TypesEqual(c) false.
C4_NotTransitive ==
    (/\ Len(teGot) = 4
     /\ Typs(teA) = <<TypeInt>>
     /\ Typs(teB) = <<TypeNull>>
     /\ Typs(teC) = <<TypeString>>)
        => (teGot[1] /\ teGot[3] /\ ~teGot[4])

\* C4, amended: TypesEqual is transitive, Null types included: whenever
\* a.TypesEqual(b) and b.TypesEqual(c) are true, so is a.TypesEqual(c).  For
\* a = [Int], b = [Null], c = [String], a.TypesEqual(b) is true and
\* b.TypesEqual(c) and a.TypesEqual(c) are false.
C4_Transitive ==
    /\ Len(teGot) = 4 => ((teGot[1] /\ teGot[3]) => teGot[4])
    /\ (/\ Len(teGot) = 4
        /\ Typs(teA) = <<TypeInt>>
        /\ Typs(teB) = <<TypeNull>>
        /\ Typs(teC) = <<TypeString>>)
          => (teGot[1] /\ ~teGot[3] /\ ~teGot[4])

\* A chain through a Null wildcard: [Int] equals [Int] equals [Null].
C4_Witness ==
    /\ Len(teGot) = 4
    /\ Typs(teA) = <<TypeInt>>
    /\ Typs(teB) = <<TypeInt>>
    /\ Typs(teC) = <<TypeNull>>
    /\ teGot[1]
    /\ teGot[3]
    /\ teGot[4]

\* C5: sequences of different lengths are unequal, whatever they hold.
C5_LengthsMustMatch ==
    /\ (Len(teGot) >= 1 /\ Len(teA) # Len(teB)) => ~teGot[1]
    /\ (Len(teGot) >= 2 /\ Len(teA) # Len(teB)) => ~teGot[2]

\* [] has been compared with [Null].
C5_Witness ==
    /\ Len(teGot) >= 2
    /\ teA = <<>>
    /\ Typs(teB) = <<TypeNull>>

(***************************************************************************)
(* Properties of the cast target resolver.                                 *)
(***************************************************************************)
\* The pgerror code of an error.
ErrCode(e) == IF e = NoErr THEN "none" ELSE Head(e)

\* C6: for every primitive value type v, DatumTypeToColumnType(v) succeeds
\* and CastTargetToDatumType of its result is v.
C6_PrimitiveRoundTrip ==
    /\ (op = "DatumTypeToColumnType" /\ argT \in Primitives) =>
          /\ err = NoErr
          /\ retC \in DOMAIN heap
          /\ CastTargetToDatumType(heap, retC) = argT
    /\ \A v \in Primitives :
          (/\ op = "CastTargetToDatumType"
           /\ argC = DatumTypeToColumnType(v, Catalog, 0).ret)
              => (err = NoErr /\ retT = v)

\* The column type DatumTypeToColumnType gives for NAME has been converted
\* back.
C6_Witness ==
    /\ op = "CastTargetToDatumType"
    /\ argC = DatumTypeToColumnType(TypeName, Catalog, 0).ret
    /\ retT = TypeName

\* C7: CastTargetToDatumType returns a value type for every column type and
\* never panics.
C7_CastTargetTotal ==
    op = "CastTargetToDatumType" => (err = NoErr /\ retT # NoT)

\* A value type with its array and OID-wrapper constructors removed.
RECURSIVE BaseOf(_)
BaseOf(t) ==
    IF Head(t) \in {"TArray", "TOidWrapper"} THEN BaseOf(Tail(t)) ELSE t

\* A value type with its leading OID wrappers removed.
RECURSIVE Unwrap(_)
Unwrap(t) == IF Head(t) = "TOidWrapper" THEN Unwrap(Tail(t)) ELSE t

\* No case of DatumTypeToColumnType matches what t is built from.
NoCase(t) ==
    /\ BaseOf(t) \notin Primitives \cup OidTypes
    /\ Head(BaseOf(t)) # "TCollatedString"

\* t is an array whose element has a column type arrayOf refuses: an array,
\* or a variant the configuration bars.
RefusedElement(t) ==
    /\ ~NoCase(t)
    /\ Head(Unwrap(t)) = "TArray"
    /\ LET e == Unwrap(Tail(Unwrap(t)))
       IN  \/ Head(e) = "TArray"
           \/ e = TypeJSON /\ "JSONColType" \in nonIndexable

\* C8, as stated: every call either fails with InvalidTableDefinition and no
\* column type, or returns a column type and no error.
C8_InvalidTableDefinitionOrType ==
    op = "DatumTypeToColumnType" =>
        \/ ErrCode(err) = CodeInvalidTableDefinitionError /\ retC = Nil
        \/ err = NoErr /\ retC # Nil

\* C8, amended: the error is InvalidTableDefinition, with no column type,
\* exactly for the value types no case matches once array and OID-wrapper
\* constructors are removed; it is FeatureNotSupported, with no column type,
\* exactly for arrays whose element has a column type arrayOf refuses; every
\* other value type gives a column type and no error.
C8_ErrorByValueType ==
    op = "DatumTypeToColumnType" =>
        /\ (ErrCode(err) = CodeInvalidTableDefinitionError) <=> NoCase(argT)
        /\ (ErrCode(err) = CodeFeatureNotSupportedError) <=> RefusedElement(argT)
        /\ (NoCase(argT) \/ RefusedElement(argT)) => retC = Nil
        /\ ~(NoCase(argT) \/ RefusedElement(argT)) =>
              (err = NoErr /\ retC \in DOMAIN heap)

\* An array of the Null type has been refused as an invalid table definition.
C8_Witness ==
    /\ op = "DatumTypeToColumnType"
    /\ argT = TArray(TypeNull)
    /\ ErrCode(err) = CodeInvalidTableDefinitionError
    /\ retC = Nil

\* What C9 says of the call on Array(T), but for the value type of the
\* result: elemT is what CastTargetToDatumType must give for the element.
ArrayCase(elemT) ==
    LET inner == DatumTypeToColumnType(Tail(argT), Catalog, 0)
        made == arrayOf(inner.heap, inner.n, inner.ret, NoBounds)
    IN  /\ inner.err # NoErr => (err = inner.err /\ retC = Nil)
        /\ inner.err = NoErr =>
              /\ err = made.err
              /\ made.err # NoErr => retC = Nil
              /\ made.err = NoErr =>
                    /\ retC \in DOMAIN heap
                    /\ heap[retC].variant = "ArrayColType"
                    /\ heap[retC].Name = made.heap[made.ret].Name
                    /\ heap[retC].BoundsExprs = NoBounds
                    /\ heap[heap[retC].ParamType] = inner.heap[inner.ret]
                    /\ inner.ret \in DOMAIN Catalog
                          => heap[retC].ParamType = inner.ret
        /\ argT = TArray(TArray(TypeInt))
              => ErrCode(err) = CodeFeatureNotSupportedError
        /\ argT = TArray(TTuple)
              => ErrCode(err) = CodeInvalidTableDefinitionError
        /\ err = NoErr => CastTargetToDatumType(heap, retC) = TArray(elemT)

\* C9, as stated: on success CastTargetToDatumType of the result is Array(T).
C9_ArrayOfElement ==
    (op = "DatumTypeToColumnType" /\ Head(argT) = "TArray") =>
        ArrayCase(Tail(argT))

\* C9, amended: on success CastTargetToDatumType of the result is Array(T')
\* where T' is T without its OID wrappers (Array(T) when T has none).
C9_ArrayOfUnwrappedElement ==
    (op = "DatumTypeToColumnType" /\ Head(argT) = "TArray") =>
        ArrayCase(SelectSeq(Tail(argT), LAMBDA x : x # "TOidWrapper"))

\* An array of an OID-wrapped INT has been given the column type INT[].
C9_Witness ==
    /\ op = "DatumTypeToColumnType"
    /\ argT = TArray(TOidWrapper(TypeInt))
    /\ err = NoErr
    /\ heap[retC].Name = "INT[]"
    /\ CastTargetToDatumType(heap, retC) = TArray(TypeInt)

\* C10: arrayOf fails with FeatureNotSupported and returns no type when the
\* element is an ArrayColType or a VectorColType, so no ArrayColType has an
\* array or a vector as its ParamType.
C10_NoArrayOfArrayOrVector ==
    /\ (op = "arrayOf"
        /\ heap[argC].variant \in {"ArrayColType", "VectorColType"})
          => (ErrCode(err) = CodeFeatureNotSupportedError /\ retC = Nil)
    /\ \A a \in DOMAIN heap :
          heap[a].variant = "ArrayColType" =>
              heap[heap[a].ParamType].variant
                  \notin {"ArrayColType", "VectorColType"}

\* arrayOf has refused the array an earlier call returned.
C10_Witness ==
    /\ op = "arrayOf"
    /\ argC \notin DOMAIN Catalog
    /\ heap[argC].variant = "ArrayColType"
    /\ ErrCode(err) = CodeFeatureNotSupportedError
    /\ retC = Nil

(***************************************************************************)
(* Properties of arrays and their rendering.                               *)
(***************************************************************************)
\* C11: a successful arrayOf(e, bounds) returns an ArrayColType whose name is
\* the text of e followed by "[]", whose ParamType is e and whose bounds are
\* the ones given; the array of the default INT renders as INT[].
C11_ArrayOfNameParamBounds ==
    /\ (op = "arrayOf" /\ err = NoErr) =>
          /\ heap[retC].variant = "ArrayColType"
          /\ heap[retC].Name = String(heap, argC) \o "[]"
          /\ heap[retC].ParamType = argC
          /\ heap[retC].BoundsExprs = argB
    /\ (op = "Format"
        /\ heap[argC].variant = "ArrayColType"
        /\ heap[argC].ParamType = intColTypeInt) => retS = "INT[]"

\* The array of INT that arrayOf built with one bounds expression has been
\* rendered.
C11_Witness ==
    /\ op = "Format"
    /\ heap[argC].variant = "ArrayColType"
    /\ heap[argC].ParamType = intColTypeInt
    /\ heap[argC].BoundsExprs = <<"1">>
    /\ retS = "INT[]"

\* C12: an array whose element is a collated string renders as the element's
\* base string type, then the brackets, then one COLLATE clause with the
\* element's locale; the locale appears nowhere before the brackets.
C12_OneCollateAfterBrackets ==
    (op = "Format"
     /\ heap[argC].variant = "ArrayColType"
     /\ heap[heap[argC].ParamType].variant = "CollatedStringColType") =>
        LET e == heap[heap[argC].ParamType]
        IN  retS = e.Name \o (IF e.N > 0 THEN Paren(e.N) ELSE "") \o "[]"
                       \o " COLLATE "
                       \o encodeUnrestrictedSQLIdent(e.Locale, argF)

(***************************************************************************)
(* Properties of LimitDecimalWidth.  A call that has returned is at        *)
(* "done": d0 is the decimal it was given, d the decimal it left, err the  *)
(* error it returned.                                                      *)
(***************************************************************************)
Returned == {g \in DOMAIN calls : calls[g].pc = "done"}

\* The scale lies in the exponent range.
ScaleInRange(scale) ==
    ~Lt(scale, GoInt(MinInt32 + 1)) /\ ~Lt(GoInt(MaxInt32), scale)

\* C13: on a NaN or infinite value, or with precision <= 0, LimitDecimalWidth
\* returns no error at once and leaves the value as it was, whatever the
\* scale.
C13_NoOpWhenNotFiniteOrNoPrecision ==
    \A g \in DOMAIN calls :
        (calls[g].pc # "idle"
         /\ (calls[g].d0.Form # Finite \/ ~Lt(GoInt(0), calls[g].precision)))
            => /\ calls[g].pc = "done"
               /\ calls[g].err = NoErr
               /\ calls[g].d = calls[g].d0

\* A finite value was limited with precision 0 and a scale past 32 bits.
C13_Witness ==
    \E g \in Returned :
        /\ calls[g].d0 = Decimal(Finite, FALSE, 12345, 0)
        /\ calls[g].precision = GoInt(0)
        /\ Lt(GoInt(MaxInt32), calls[g].scale)
        /\ calls[g].err = NoErr
        /\ calls[g].d = calls[g].d0

\* C14, as stated: every call with scale > precision, such as (x, 5, 10) for
\* any decimal x, fails with InvalidParameterValue.
C14_ScaleAbovePrecisionAlwaysFails ==
    \A g \in Returned :
        Lt(calls[g].precision, calls[g].scale)
            => ErrCode(calls[g].err) = CodeInvalidParameterValueError

\* C14, amended: a call with scale > precision fails with
\* InvalidParameterValue when the value is finite, the precision positive and
\* the scale at most MaxInt32; it returns no error when the value is not
\* finite or the precision is not positive, and the scale-out-of-range error
\* when the scale is above MaxInt32.
C14_ScaleAbovePrecision ==
    \A g \in Returned :
        Lt(calls[g].precision, calls[g].scale) =>
            calls[g].err =
                IF calls[g].d0.Form # Finite \/ ~Lt(GoInt(0), calls[g].precision)
                THEN NoErr
                ELSE IF Lt(GoInt(MaxInt32), calls[g].scale)
                THEN errScaleOutOfRange
                ELSE errScaleAbovePrecision(calls[g].precision, calls[g].scale)

\* 9.995 was limited with precision 5 and scale 10, and refused.
C14_Witness ==
    \E g \in Returned :
        /\ calls[g].d0 = Decimal(Finite, FALSE, 9995, -3)
        /\ calls[g].precision = GoInt(5)
        /\ calls[g].scale = GoInt(10)
        /\ ErrCode(calls[g].err) = CodeInvalidParameterValueError

\* C15, as stated: a scale outside the exponent range fails with an error of
\* a kind of its own, not NumericValueOutOfRange, ahead of the comparison
\* with the precision.
C15_ScaleOutOfRangeOwnKind ==
    \A g \in Returned :
        (calls[g].d0.Form = Finite
         /\ Lt(GoInt(0), calls[g].precision)
         /\ ~ScaleInRange(calls[g].scale))
            => /\ calls[g].err # NoErr
               /\ ErrCode(calls[g].err)
                      \notin {CodeNumericValueOutOfRangeError,
                              CodeInvalidParameterValueError}

\* C15, amended: a scale outside the exponent range fails with
\* errScaleOutOfRange, whose code is NumericValueOutOfRange and whose message
\* sets it apart from the error of a value that does not fit; it is returned
\* ahead of the comparison with the precision.
C15_ScaleOutOfRange ==
    \A g \in Returned :
        (calls[g].d0.Form = Finite
         /\ Lt(GoInt(0), calls[g].precision)
         /\ ~ScaleInRange(calls[g].scale))
            => /\ calls[g].err = errScaleOutOfRange
               /\ ErrCode(calls[g].err) = CodeNumericValueOutOfRangeError
               /\ calls[g].err
                      # errOutOfRange(calls[g].precision, calls[g].scale)
               /\ calls[g].d = calls[g].d0

\* A scale above both MaxInt32 and the precision was refused as out of range.
C15_Witness ==
    \E g \in Returned :
        /\ calls[g].d0.Form = Finite
        /\ calls[g].precision = GoInt(3)
        /\ Lt(GoInt(MaxInt32), calls[g].scale)
        /\ calls[g].err = errScaleOutOfRange

\* The calls that got past the early returns: finite value, precision > 0,
\* scale in the exponent range and at most the precision.
Quantized ==
    {g \in Returned :
        /\ calls[g].d0.Form = Finite
        /\ Lt(GoInt(0), calls[g].precision)
        /\ ScaleInRange(calls[g].scale)
        /\ ~Lt(calls[g].precision, calls[g].scale)}

\* The integer nearest to |x| * 10^scale, halves going up: x rounded to scale
\* fractional digits, in units of 10^-scale.
RoundedUnits(x, scale) ==
    LET shift == int32(scale) + x.Exponent
    IN  IF x.Coeff = 0 THEN 0
        ELSE IF shift >= 0 THEN x.Coeff * 10^shift
        ELSE IF -shift > NumDigits(x.Coeff) THEN 0
        ELSE (2 * x.Coeff + 10^(-shift)) \div (2 * 10^(-shift))

\* |x| rounded to scale fractional digits is at least 10^(precision - scale):
\* its units have more than precision digits.
RoundsOutOfRange(x, precision, scale) ==
    Lt(precision, GoInt(NumDigits(RoundedUnits(x, scale))))

\* C16: past the early returns, LimitDecimalWidth fails with
\* NumericValueOutOfRange exactly when the value rounded to scale fractional
\* digits has an absolute value of at least 10^(precision - scale), and the
\* message gives the bound as "1" when precision - scale is 0 and as
\* "10^<precision - scale>" otherwise.
C16_OutOfRangeExactlyWhenTooWide ==
    \A g \in Quantized :
        LET call == calls[g]
            bound == IF call.precision = call.scale THEN "1"
                     ELSE "10^" \o IntString(Sub(call.precision, call.scale))
        IN  IF RoundsOutOfRange(call.d0, call.precision, call.scale)
            THEN call.err =
                    <<CodeNumericValueOutOfRangeError,
                      "value with precision " \o IntString(call.precision)
                          \o ", scale " \o IntString(call.scale)
                          \o " must round to an absolute value less than "
                          \o bound>>
            ELSE call.err = NoErr

\* C17: the value is rounded to the scale before it is checked against the
\* precision.  On success the decimal left is the rounded value, with
\* exponent -scale and an absolute value below 10^(precision - scale); 9.995
\* with precision 3 and scale 2 rounds to 10.00 and is refused.
C17_RoundsBeforeChecking ==
    \A g \in Quantized :
        LET call == calls[g] IN
        /\ call.err = NoErr =>
              /\ call.d = [call.d0 EXCEPT
                              !.Coeff = RoundedUnits(call.d0, call.scale),
                              !.Exponent = -int32(call.scale)]
              /\ ~RoundsOutOfRange(call.d, call.precision, call.scale)
        /\ (call.d0 = Decimal(Finite, FALSE, 9995, -3)
            /\ call.precision = GoInt(3)
            /\ call.scale = GoInt(2))
              => ErrCode(call.err) = CodeNumericValueOutOfRangeError

\* 9.995 was limited with precision 3 and scale 2, and refused.
C17_Witness ==
    \E g \in Quantized :
        /\ calls[g].d0 = Decimal(Finite, FALSE, 9995, -3)
        /\ calls[g].precision = GoInt(3)
        /\ calls[g].scale = GoInt(2)
        /\ ErrCode(calls[g].err) = CodeNumericValueOutOfRangeError

\* C18: a call that returns an error leaves the caller's decimal as it was.
C18_ErrorLeavesValue ==
    \A g \in Returned : calls[g].err # NoErr => calls[g].d = calls[g].d0

(***************************************************************************)
(* Concurrent calls of LimitDecimalWidth.                                  *)
(***************************************************************************)
\* A step leaves the shared context as it is, sets traps on a context other
\* than the shared one, and quantizes with the precision of its own call
\* and the invalid-operation trap.
SharedContextStep ==
    /\ ctxs'[DecimalCtx] = ctxs[DecimalCtx]
    /\ \A g \in DOMAIN calls :
          /\ (calls[g].pc = "Traps" /\ calls'[g].pc = "Quantize")
                => calls[g].c # DecimalCtx
          /\ (calls[g].pc = "Quantize" /\ calls'[g].pc = "done")
                => /\ calls'[g].used.Precision = uint32(calls[g].precision)
                   /\ calls'[g].used.Traps = {InvalidOperation}

\* C19: LimitDecimalWidth never modifies the shared DecimalCtx; under every
\* interleaving of concurrent calls each call quantizes with its own
\* precision, and the invalid-operation trap is set on its private copy only.
C19_SharedContextUntouched == [][SharedContextStep]_vars

\* Two goroutines hold copies of different precisions, both about to
\* quantize.
C19_Witness ==
    \E g, h \in DOMAIN calls :
        /\ calls[g].pc = "Quantize"
        /\ calls[h].pc = "Quantize"
        /\ calls[g].c # calls[h].c
        /\ ctxs[calls[g].c].Precision = GoInt(1)
        /\ ctxs[calls[h].c].Precision = GoInt(3)
        /\ ctxs[calls[g].c].Traps = {InvalidOperation}

(***************************************************************************)
(* Properties of the rendering of numeric parameters.                      *)
(***************************************************************************)
\* C20: Format writes a parenthesized parameter list after the name of an
\* Int, Float, Decimal or String column type only when the parameter was
\* explicitly specified and is greater than zero; a FloatColType whose
\* PrecSpecified is false renders as its bare name whatever its Prec.
C20_ParametersOnlyWhenSpecified ==
    op = "Format" =>
        LET node == heap[argC] IN
        /\ node.variant = "IntColType" =>
              (retS # node.Name => node.Width > 0 /\ ~node.ImplicitWidth)
        /\ node.variant = "FloatColType" =>
              (retS # node.Name => node.Prec > 0 /\ node.PrecSpecified)
        /\ node.variant = "DecimalColType" =>
              (retS # node.Name => node.Prec > 0)
        /\ node.variant = "StringColType" =>
              (retS # node.Name => node.N > 0)

\* C21: IntColType.Format writes the name followed by "(Width)" exactly when
\* Width > 0 and ImplicitWidth is false, and the bare name otherwise: BIT of
\* explicit width 5 renders BIT(5), SMALLINT of implicit width 16 renders
\* SMALLINT, and every pre-allocated integer type renders as its name.
C21_IntWidthOnlyWhenExplicit ==
    (op = "Format" /\ heap[argC].variant = "IntColType") =>
        LET node == heap[argC] IN
        /\ retS = IF node.Width > 0 /\ ~node.ImplicitWidth
                  THEN node.Name \o "(" \o ToString(node.Width) \o ")"
                  ELSE node.Name
        /\ argC \in DOMAIN Catalog => retS = node.Name
        /\ node = IntColType("BIT", 5, FALSE) => retS = "BIT(5)"
        /\ node = IntColType("SMALLINT", 16, TRUE) => retS = "SMALLINT"

\* A BIT type of explicit width 5 has been rendered.
C21_Witness ==
    /\ op = "Format"
    /\ heap[argC] = IntColType("BIT", 5, FALSE)
    /\ retS = "BIT(5)"

\* A call of NewFloatColType returns the shared FLOAT exactly for prec 0 not
\* specified, and otherwise a struct at an address not in use, of name FLOAT
\* and width 64, carrying prec and precSpecified.
NewFloatColTypeStep ==
    \A prec \in FloatPrecs, precSpecified \in BOOLEAN :
        CallNewFloatColType(prec, precSpecified) =>
            IF prec = 0 /\ ~precSpecified
            THEN retC' = floatColTypeFloat
            ELSE /\ retC' \notin DOMAIN heap
                 /\ heap'[retC'] = FloatColType("FLOAT", prec, 64, precSpecified)

\* C22: NewFloatColType(prec, precSpecified) returns the one shared default
\* FLOAT exactly when prec is 0 and precSpecified is false, and otherwise a
\* newly allocated FLOAT of width 64 carrying prec and precSpecified; no
\* call changes the fields of the shared instance.
C22_SharedFloatOnlyForDefault ==
    [][/\ NewFloatColTypeStep
       /\ heap'[floatColTypeFloat] = heap[floatColTypeFloat]
       /\ heap[floatColTypeFloat] = FloatColType("FLOAT", 0, 64, FALSE)]_vars

\* NewFloatColType(0, true) has returned a FLOAT other than the shared one,
\* the last struct the bound lets a caller allocate.
C22_Witness ==
    /\ op = "NewFloatColType"
    /\ retC \notin DOMAIN Catalog
    /\ heap[retC] = FloatColType("FLOAT", 0, 64, TRUE)
    /\ nalloc = MaxAlloc

\* A call of newIntBitType fails exactly for a width below 1, and otherwise
\* returns a BIT type at an address not in use, of that width, not implicit,
\* which renders as BIT(width).
NewIntBitTypeStep ==
    \A width \in BitWidths :
        CallNewIntBitType(width) =>
            IF width < 1
            THEN /\ retC' = Nil
                 /\ ErrCode(err') = CodeInvalidParameterValueError
            ELSE /\ err' = NoErr
                 /\ retC' \notin DOMAIN heap
                 /\ heap'[retC'] = IntColType("BIT", width, FALSE)
                 /\ Format(heap', retC', FmtSimple)
                        = "BIT(" \o ToString(width) \o ")"

\* C25: newIntBitType(width) fails with InvalidParameterValue and returns no
\* type exactly when width < 1; for width >= 1 it returns a new BIT type of
\* that explicit width, which renders as BIT(width), BIT(1) for width 1; the
\* shared BIT is never returned or modified.
C25_BitWidthAtLeastOne ==
    [][/\ NewIntBitTypeStep
       /\ heap'["intColTypeBit"] = heap["intColTypeBit"]
       /\ heap["intColTypeBit"] = IntColType("BIT", 1, TRUE)
       /\ \A f \in FmtFlagsChoices :
             (op = "newIntBitType" /\ retC # Nil /\ CallFormat(retC, f))
                => retS' = "BIT(" \o ToString(heap[retC].Width) \o ")"]_vars

\* The BIT type newIntBitType returned for width 1 is not the shared BIT and
\* renders as BIT(1).
C25_Witness ==
    /\ op = "newIntBitType"
    /\ err = NoErr
    /\ retC \notin DOMAIN Catalog
    /\ heap[retC].Width = 1
    /\ Format(heap, retC, FmtSimple) = "BIT(1)"

(***************************************************************************)
(* Properties of the OID family.                                           *)
(***************************************************************************)
\* The six pre-allocated OID column types.
OidColTypes ==
    {oidColTypeOid, oidColTypeRegClass, oidColTypeRegNamespace,
     oidColTypeRegProc, oidColTypeRegProcedure, oidColTypeRegType}

\* C26: on the six OID-family types oidTypeToColType and oidColTypeToType are
\* inverses of each other: each value type has a pre-allocated column type
\* of its own and maps back to itself, so DatumTypeToColumnType followed by
\* CastTargetToDatumType returns the value type it was given, and no two of
\* the six column types have the same value type.
C26_OidMappingsInverse ==
    /\ \A t \in OidTypes :
          /\ oidTypeToColType(t) \in OidColTypes
          /\ oidColTypeToType(oidTypeToColType(t)) = t
    /\ \A t1, t2 \in OidTypes :
          oidTypeToColType(t1) = oidTypeToColType(t2) => t1 = t2
    /\ \A c \in OidColTypes :
          /\ oidColTypeToType(c) \in OidTypes
          /\ oidTypeToColType(oidColTypeToType(c)) = c
    /\ (op = "DatumTypeToColumnType" /\ argT \in OidTypes) =>
          /\ err = NoErr
          /\ retC = oidTypeToColType(argT)
          /\ CastTargetToDatumType(heap, retC) = argT
    /\ (op = "CastTargetToDatumType" /\ argC \in OidColTypes) =>
          /\ err = NoErr
          /\ retT \in OidTypes
          /\ DatumTypeToColumnType(retT, heap, nalloc).ret = argC

\* The column type DatumTypeToColumnType gave for REGTYPE has been converted
\* back to REGTYPE.
C26_Witness ==
    /\ op = "CastTargetToDatumType"
    /\ argC = oidColTypeRegType
    /\ argC = DatumTypeToColumnType(TypeRegType, heap, nalloc).ret
    /\ retT = TypeRegType

(***************************************************************************)
(* Properties of the sqlfmt command.                                       *)
(***************************************************************************)
\* runSQLFmt was called and is past its checks of the widths.
PastWidths ==
    /\ Len(sqlfmt.events) >= 1
    /\ sqlfmt.pc # "runSQLFmt"

\* C23: a line width below 1 or a tab width below 1 ends runSQLFmt with a
\* validation error before standard input is read and before any parse is
\* attempted, with nothing written to standard output; the line width is
\* checked before the tab width.
C23_WidthsCheckedBeforeInput ==
    (PastWidths /\ (sqlfmt.ctx.len < 1 \/ sqlfmt.ctx.tabWidth < 1)) =>
        /\ sqlfmt.pc \in {"returned", "exited"}
        /\ sqlfmt.ret =
              IF sqlfmt.ctx.len < 1
              THEN <<"line length must be > 0: " \o ToString(sqlfmt.ctx.len)>>
              ELSE <<"tab width must be > 0: "
                        \o ToString(sqlfmt.ctx.tabWidth)>>
        /\ sqlfmt.events = <<"runSQLFmt">>
        /\ sqlfmt.in = <<>>
        /\ sqlfmt.stdout = <<>>

\* runSQLFmt has returned the line length error for a run with both widths
\* 0 and two statements waiting on standard input.
C23_Witness ==
    /\ sqlfmt.pc = "returned"
    /\ sqlfmt.ctx.len = 0
    /\ sqlfmt.ctx.tabWidth = 0
    /\ sqlfmt.stdin = <<"SELECT 1", "SELECT 2">>
    /\ sqlfmt.ret = <<"line length must be > 0: 0">>
    /\ sqlfmt.stdout = <<>>

\* C24: every failure of a run (invalid widths, failure to read standard
\* input, malformed SQL) reaches the top level: a process whose runSQLFmt
\* returned an error does not exit with the status of success.
C24_FailureReachesTopLevel ==
    (sqlfmt.pc = "exited" /\ sqlfmt.ret # NoErr) => sqlfmt.exit # 0

====
